---- MODULE Spec2Model ----
(***************************************************************************)
(* A model of ruru's DSL macros (src/src/dsl.rs) and of the Array wrapper  *)
(* (src/src/class/array.rs).                                               *)
(*                                                                         *)
(*  - methods! / unsafe_methods!: the generated extern thunks, one step    *)
(*    per declared argument of the expanded prologue, then the body.       *)
(*  - wrappable_struct!: the lazily initialised wrapper static, its        *)
(*    DataType descriptor, wrap_data / get_data and the VM's collector.    *)
(*  - Array: new / at / push over the VM's array primitives.               *)
(***************************************************************************)
EXTENDS Integers, Sequences, FiniteSets, TLC

VARIABLES
    \* ---- a thunk call: extern fn $method_name(argc, argv, itself) ----
    pc,          \* "idle" | "prologue" | "body" | "returning" | "panicking" | "crossed"
    decl,        \* the declaration the running thunk was generated from
    argc,        \* the VM's argument count
    argv,        \* the VM's argument vector (Len(argv) = argc)
    _arguments,  \* let _arguments = VM::parse_arguments(argc, argv)
    _i,          \* let mut _i = 0
    bindings,    \* the $arg_name bindings made so far, in expansion order
    slots,       \* the slot index each binding looked up (history)
    panicIn,     \* "none" | "prologue" | "body": where a panic was raised
    ret,         \* the value the body evaluated to
    port,        \* `port` of the documented start() body
    outcome,     \* how the call left the thunk: "none" | "returned" | "abort" | "unwind_into_vm"
    \* ---- wrappable_struct! ----
    registry,    \* each static's lazy cell: Uninit or the $wrapper value
    inits,       \* how many times $wrapper::new() ran for each static
    objects,     \* the VM's typed-data objects
    boxes,       \* the native heap: boxed structs handed to the VM
    lastGet,     \* what the last get_data evaluated to
    \* ---- Array ----
    vmArrays,    \* the VM's arrays, indexed by their rb_value
    self,        \* the Array wrapper: Array { value }
    pushed,      \* the items pushed on `self` since Array::new() (history)
    lastAt,      \* what the last at(index) evaluated to
    lastPush     \* what the last push(item) returned, and self.value before it

thunkVars == <<pc, decl, argc, argv, _arguments, _i, bindings, slots, panicIn, ret, port, outcome>>
wrapVars  == <<registry, inits, objects, boxes, lastGet>>
arrayVars == <<vmArrays, self, pushed, lastAt, lastPush>>
vars      == <<thunkVars, wrapVars, arrayVars>>

(***************************************************************************)
(* Bounds                                                                  *)
(***************************************************************************)
MaxArgc == 3
MaxObjects == 2
MaxLen == 3
MaxArrays == 1

(***************************************************************************)
(* VM values. A value is a tagged word; the model keeps its class and the  *)
(* payload the wrappers read back.                                         *)
(***************************************************************************)
Fix(n)      == [cls |-> "Fixnum",   n |-> n, s |-> "", ent |-> {}]
Str(s)      == [cls |-> "String",   n |-> 0, s |-> s,  ent |-> {}]
Nil         == [cls |-> "NilClass", n |-> 0, s |-> "", ent |-> {}]
Bool(b)     == [cls |-> IF b THEN "TrueClass" ELSE "FalseClass", n |-> 0, s |-> "", ent |-> {}]
\* a Hash: ent is a set of <<symbol name, value>> pairs, one per key
HashOf(ent) == [cls |-> "Hash",     n |-> 0, s |-> "", ent |-> ent]

ArgValues ==
    { Fix(3000),
      Str("nope"),
      HashOf({}),
      HashOf({<<"port", Fix(3000)>>}),
      HashOf({<<"port", Str("nope")>>}),
      HashOf({<<"host", Str("localhost")>>, <<"port", Fix(8080)>>}) }

RECURSIVE SeqsUpTo(_, _)
SeqsUpTo(S, n) ==
    IF n = 0 THEN { <<>> }
    ELSE LET shorter == SeqsUpTo(S, n - 1)
         IN  shorter \cup { Append(q, v) : q \in { r \in shorter : Len(r) = n - 1 }, v \in S }

\* class_of: the VM's class tag of a value
class_of(v) == v.cls

\* the VM class each wrapper type stands for
ClassFor(type) ==
    CASE type = "RString" -> "String"
      [] type = "Fixnum"  -> "Fixnum"
      [] type = "Hash"    -> "Hash"
      [] OTHER            -> type

\* a typed wrapper: one VM value viewed as `type`
Wrapper(type, v) == [wrapper |-> type, value |-> v]

NoWrapper == [wrapper |-> "", value |-> Nil]
NoError   == [kind |-> "", info |-> <<>>]
Ok(w)     == [ok |-> TRUE,  val |-> w,         err |-> NoError]
Err(e)    == [ok |-> FALSE, val |-> NoWrapper, err |-> e]

\* Object::to::<T>: the unchecked downcast; the class is not looked at
to(type, v) == Wrapper(type, v)

\* Object::try_convert_to::<T>: the checked downcast
try_convert_to(type, v) ==
    IF class_of(v) = ClassFor(type)
    THEN Ok(Wrapper(type, v))
    ELSE Err([kind |-> "TypeMismatch", info |-> <<ClassFor(type), class_of(v)>>])

\* VM::parse_arguments(argc, argv): the argv view of length argc
parse_arguments(c, v) == SubSeq(v, 1, c)

\* Hash::at(key): the stored value, or the VM's nil
hash_at(h, key) ==
    IF \E e \in h.ent : e[1] = key
    THEN (CHOOSE e \in h.ent : e[1] = key)[2]
    ELSE Nil

(***************************************************************************)
(* The declarations handed to the generators: the documented ones, and the *)
(* same signatures under unsafe_methods! with a user block as body.        *)
(***************************************************************************)
Arg(name, type) == [arg_name |-> name, arg_type |-> type]

Decl(gen, name, args) == [gen |-> gen, method_name |-> name, args |-> args]

Signatures ==
    { <<"anonymous_greeting", <<>>>>,
      <<"friendly_greeting", <<Arg("name", "RString")>>>>,
      <<"start", <<Arg("address", "Hash")>>>>,
      <<"ruby_server_new", <<Arg("host", "RString"), Arg("port", "Fixnum")>>>> }

Decls ==
    { Decl("safe", sg[1], sg[2]) : sg \in Signatures }
    \cup { Decl("unsafe", "string_length_equals", <<Arg("expected_length", "Fixnum")>>) }
    \cup { Decl("unsafe", sg[1], sg[2]) : sg \in Signatures }

NoDecl == Decl("", "", <<>>)

\* the number of bindings the expanded prologue has made
Bound == Len(bindings)

\* format!("Argument '{}: {}' not found for method '{}'", ...)
ArgumentError(arg, method_name) ==
    [kind |-> "ArgumentError",
     info |-> <<"Argument '", arg.arg_name, ": ", arg.arg_type,
                "' not found for method '", method_name, "'">>]

\* _arguments.get(_i): Some(slot) or None
get(arguments, i) ==
    IF i + 1 \in DOMAIN arguments THEN {arguments[i + 1]} ELSE {}

\* a methods! binding that converts the slot without the class check
SafeBindingUnchecked(arguments, i, arg, method_name) ==
    LET slot == get(arguments, i)
    IN  IF slot = {}
        THEN Err(ArgumentError(arg, method_name))
        ELSE Ok(to(arg.arg_type, CHOOSE v \in slot : TRUE))

\* methods!: _arguments.get(_i).ok_or(ArgumentError(..)).and_then(try_convert_to)
SafeBinding(arguments, i, arg, method_name) ==
    LET slot == get(arguments, i)
    IN  IF slot = {}
        THEN Err(ArgumentError(arg, method_name))
        ELSE try_convert_to(arg.arg_type, CHOOSE v \in slot : TRUE)

\* whether _arguments[_i] is inside the vector
InBounds(arguments, i) == i + 1 \in DOMAIN arguments

\* a lookup that indexes the vector in both generators
LookupPanicsIndexed(gen, arguments, i) == ~InBounds(arguments, i)

\* whether looking up slot i panics: `_arguments[_i]` (unsafe_methods!) panics
\* out of bounds, `_arguments.get(_i)` (methods!) never does
LookupPanics(gen, arguments, i) == gen = "unsafe" /\ ~InBounds(arguments, i)

\* unsafe_methods!: Object::to::<$arg_type>(&_arguments[_i])
UnsafeBinding(arguments, i, arg) == to(arg.arg_type, arguments[i + 1])

\* an index that skips a slot
AdvanceTwice(i) == i + 2

\* _i += 1
Advance(i) == i + 1

\* the binding one expansion of the repetition makes
Binding(gen, arguments, i, arg, method_name) ==
    IF gen = "safe"
    THEN SafeBinding(arguments, i, arg, method_name)
    ELSE UnsafeBinding(arguments, i, arg)

(***************************************************************************)
(* wrappable_struct!($struct_name, $wrapper, $static_name)                 *)
(***************************************************************************)
\* the statics the macro is instantiated for, and each one's $struct_name
Statics == {"SERVER_WRAPPER", "CLIENT_WRAPPER"}

StructName(static) == IF static = "SERVER_WRAPPER" THEN "Server" ELSE "Client"

None == [some |-> FALSE, fn |-> "", of |-> ""]

Some(fn, T) == [some |-> TRUE, fn |-> fn, of |-> T]

\* a descriptor without a destructor
new_without_dfree(struct_name) ==
    [data_type |->
        [wrap_struct_name |-> <<"Ruru/", struct_name>>,
         parent   |-> "null",
         data     |-> "null",
         flags    |-> 0,
         function |-> [dmark    |-> None,
                       dfree    |-> None,
                       dsize    |-> None,
                       reserved |-> <<"null", "null">>]],
     _marker |-> struct_name]

\* a descriptor that registers the destructor as the mark function too
new_marked(struct_name) ==
    [data_type |->
        [wrap_struct_name |-> <<"Ruru/", struct_name>>,
         parent   |-> "null",
         data     |-> "null",
         flags    |-> 0,
         function |-> [dmark    |-> Some("typed_data::free", struct_name),
                       dfree    |-> Some("typed_data::free", struct_name),
                       dsize    |-> None,
                       reserved |-> <<"null", "null">>]],
     _marker |-> struct_name]

\* $wrapper::new(): the wrapper with its DataType descriptor
new(struct_name) ==
    [data_type |->
        [wrap_struct_name |-> <<"Ruru/", struct_name>>,
         parent   |-> "null",
         data     |-> "null",
         flags    |-> 0,
         function |-> [dmark    |-> None,
                       dfree    |-> Some("typed_data::free", struct_name),
                       dsize    |-> None,
                       reserved |-> <<"null", "null">>]],
     _marker |-> struct_name]

\* the cell before its first dereference: nothing has been built
Uninit ==
    [init |-> FALSE,
     wrapper |-> [data_type |-> [wrap_struct_name |-> <<>>, parent |-> "", data |-> "",
                                 flags |-> 0,
                                 function |-> [dmark |-> None, dfree |-> None, dsize |-> None,
                                               reserved |-> <<>>]],
                  _marker |-> ""]]

\* lazy_static!: the first dereference runs $wrapper::new(), later ones read the cell
Deref(cell, static) ==
    IF cell.init THEN cell ELSE [init |-> TRUE, wrapper |-> new(StructName(static))]

\* how many times $wrapper::new() runs in a dereference of the cell
NewRuns(cell) == IF cell.init THEN 0 ELSE 1

\* every static handing out the descriptor of the first one
data_type_shared(static) == [static |-> "SERVER_WRAPPER"]

\* DataTypeWrapper::data_type(&self): the address of the descriptor in the static
data_type(static) == [static |-> static]

NullType == [static |-> ""]

\* Server::new(host, port) of the documented example
Server_new(host, p) == [host |-> host, port |-> p]

\* `as u16`
as_u16(n) == n % 65536

\* RString::to_string / Fixnum::to_i64
to_string(w) == w.value.s

to_i64(w) == w.value.n

ObjectIds == 1 .. MaxObjects

Ptrs == 1 .. MaxObjects

NoStruct == [host |-> "", port |-> 0]

\* a VM object: state is "none" (not allocated), "live", "unreachable" or
\* "collected"; dt and data are the typed-data fields; via, made and drops are
\* history: the static it was wrapped with, the struct wrapped, and how many
\* times its struct's destructor has run
NoObject ==
    [state |-> "none", class |-> "", dt |-> NullType, data |-> 0,
     via |-> "", made |-> NoStruct, drops |-> 0]

FreeBox == [alloc |-> FALSE, type |-> "", val |-> NoStruct]

\* what a get_data evaluated to; `by` is the method that made the call and
\* `read` the VM value that method built from the struct
NoGet == [obj |-> 0, static |-> "", ok |-> FALSE, ptr |-> 0, type |-> "", val |-> NoStruct,
          by |-> "", read |-> Nil]

WrapInit ==
    /\ registry = [s \in Statics |-> Uninit]
    /\ inits = [s \in Statics |-> 0]
    /\ objects = [o \in ObjectIds |-> NoObject]
    /\ boxes = [p \in Ptrs |-> FreeBox]
    /\ lastGet = NoGet

\* &*$static_name: the dereference of the lazy static
Force(static) ==
    /\ registry' = [registry EXCEPT ![static] = Deref(@, static)]
    /\ inits' = [inits EXCEPT ![static] = @ + NewRuns(registry[static])]

CanWrap == \E o \in ObjectIds : objects[o].state = "none"

\* the lowest of a non-empty set of numbers
Lowest(S) == CHOOSE x \in S : \A y \in S : x <= y

\* class.wrap_data(value, &*static): box the struct, allocate the VM object
\* of the class that points at the box and at the static's descriptor
wrap_data(class, value, static) ==
    /\ Force(static)
    /\ LET p == Lowest({ x \in Ptrs : ~boxes[x].alloc })
           o == Lowest({ x \in ObjectIds : objects[x].state = "none" })
       IN  /\ boxes' = [boxes EXCEPT ![p] =
                           [alloc |-> TRUE, type |-> StructName(static), val |-> value]]
           /\ objects' = [objects EXCEPT ![o] =
                           [state |-> "live", class |-> class,
                            dt |-> data_type(static), data |-> p,
                            via |-> static, made |-> value, drops |-> 0]]

\* a get_data that reads the first box, whichever object it is asked for
get_data_first(o, static) ==
    IF objects[o].dt = data_type(static)
    THEN [obj |-> o, static |-> static, ok |-> TRUE, ptr |-> 1,
          type |-> StructName(static), val |-> boxes[1].val, by |-> "", read |-> Nil]
    ELSE [obj |-> o, static |-> static, ok |-> FALSE, ptr |-> 0,
          type |-> "", val |-> NoStruct, by |-> "", read |-> Nil]

\* object.get_data(&*static): the VM checks the object's descriptor against the
\* static's; on a match the box is read as the static's struct type
get_data(o, static) ==
    IF objects[o].dt = data_type(static)
    THEN [obj |-> o, static |-> static, ok |-> TRUE, ptr |-> objects[o].data,
          type |-> StructName(static), val |-> boxes[objects[o].data].val, by |-> "", read |-> Nil]
    ELSE [obj |-> o, static |-> static, ok |-> FALSE, ptr |-> 0,
          type |-> "", val |-> NoStruct, by |-> "", read |-> Nil]

(***************************************************************************)
(* The bodies of the documented methods                                    *)
(***************************************************************************)
default_port == 8080

\* a start() body that reads the port without the Fixnum conversion
start_port_unchecked(address) ==
    IF address.ok THEN hash_at(address.val.value, "port").n ELSE default_port

\* start(address: Hash): address.map(at :port).and_then(try_convert_to::<Fixnum>)
\*                              .map(to_i64).unwrap_or(default_port)
start_port(address) ==
    LET at  == IF address.ok
               THEN Ok(Wrapper("AnyObject", hash_at(address.val.value, "port")))
               ELSE address
        fix == IF at.ok THEN try_convert_to("Fixnum", at.val.value) ELSE at
    IN  IF fix.ok THEN to_i64(fix.val) ELSE default_port

\* friendly_greeting(name: RString): name.map(to_string).unwrap_or("Anonymous")
greeting_name(name) == IF name.ok THEN to_string(name.val) ELSE "Anonymous"

\* the string format!("Hello dear {}!", name) builds
Greeting(name) == [cls |-> "String", n |-> 0, s |-> name, ent |-> {},
                   fmt |-> <<"Hello dear ", "!">>]

\* ruby_server_new(host: RString, port: Fixnum): both unwrap()s panic on an Err
new_panics(b) == ~b[1].ok \/ ~b[2].ok

new_server(b) == Server_new(to_string(b[1].val), as_u16(to_i64(b[2].val)))

Returned(v, p) == [panic |-> FALSE, ret |-> v, port |-> p]

Panicked == [panic |-> TRUE, ret |-> Nil, port |-> 0]

\* what a body without state effects evaluates to; a user block handed to
\* unsafe_methods! may return or panic
BodyResults(d, b) ==
    CASE d.gen = "safe" /\ d.method_name = "start" ->
            { Returned(Wrapper("NilClass", Nil), start_port(b[1])) }
      [] d.gen = "safe" /\ d.method_name = "friendly_greeting" ->
            { Returned(Wrapper("RString", Greeting(greeting_name(b[1]))), 0) }
      [] d.gen = "safe" /\ d.method_name = "anonymous_greeting" ->
            { Returned(Wrapper("RString", Str("Hello stranger!")), 0) }
      [] d.method_name = "string_length_equals" ->
            IF class_of(b[1].value) = "Fixnum"
            THEN { Returned(Wrapper("Boolean", Bool(to_i64(b[1]) = len)), 0) : len \in {4, 3000} }
            ELSE { Returned(Wrapper("Boolean", Bool(t)), 0) : t \in BOOLEAN } \cup { Panicked }
      [] OTHER ->
            { Returned(Wrapper("NilClass", Nil), 0), Panicked }

\* what happens to a panic at the edge of the `pub extern fn`: nothing catches
\* it, so it leaves the thunk; the build either aborts there or unwinds on
\* into the caller's frames
ThunkEdge == {"abort", "unwind_into_vm"}

(***************************************************************************)
(* Thunk steps                                                             *)
(***************************************************************************)
ThunkInit ==
    /\ pc = "idle"
    /\ decl = NoDecl
    /\ argc = 0
    /\ argv = <<>>
    /\ _arguments = <<>>
    /\ _i = 0
    /\ bindings = <<>>
    /\ slots = <<>>
    /\ panicIn = "none"
    /\ ret = Wrapper("NilClass", Nil)
    /\ port = 0
    /\ outcome = "none"

IsServerNew(d) == d.gen = "safe" /\ d.method_name = "ruby_server_new"

\* the VM calls the registered thunk; the first two statements of the thunk run
Call ==
    /\ pc = "idle"
    /\ \E d \in Decls, v \in SeqsUpTo(ArgValues, MaxArgc) :
          /\ IsServerNew(d) => CanWrap
          /\ decl' = d
          /\ argv' = v
          /\ argc' = Len(v)
          /\ _arguments' = parse_arguments(Len(v), v)
    /\ _i' = 0
    /\ bindings' = <<>>
    /\ slots' = <<>>
    /\ panicIn' = "none"
    /\ ret' = Wrapper("NilClass", Nil)
    /\ port' = 0
    /\ outcome' = "none"
    /\ pc' = "prologue"
    /\ UNCHANGED <<wrapVars, arrayVars>>

\* one expansion of the $( let $arg_name = ...; _i += 1; )* repetition
Bind ==
    /\ pc = "prologue"
    /\ Bound < Len(decl.args)
    /\ IF LookupPanics(decl.gen, _arguments, _i)
       THEN /\ pc' = "panicking"
            /\ panicIn' = "prologue"
            /\ UNCHANGED <<bindings, slots, _i>>
       ELSE /\ bindings' = Append(bindings,
                                  Binding(decl.gen, _arguments, _i,
                                          decl.args[Bound + 1], decl.method_name))
            /\ slots' = Append(slots, _i)
            /\ _i' = Advance(_i)
            /\ UNCHANGED <<pc, panicIn>>
    /\ UNCHANGED <<decl, argc, argv, _arguments, ret, port, outcome>>
    /\ UNCHANGED <<wrapVars, arrayVars>>

\* the prologue is through: $body starts
EnterBody ==
    /\ pc = "prologue"
    /\ Bound = Len(decl.args)
    /\ pc' = "body"
    /\ UNCHANGED <<decl, argc, argv, _arguments, _i, bindings, slots, panicIn, ret, port, outcome>>
    /\ UNCHANGED <<wrapVars, arrayVars>>

\* $body of a method without state effects
Body ==
    /\ pc = "body"
    /\ ~IsServerNew(decl)
    /\ \E r \in BodyResults(decl, bindings) :
          /\ pc' = IF r.panic THEN "panicking" ELSE "returning"
          /\ panicIn' = IF r.panic THEN "body" ELSE panicIn
          /\ ret' = r.ret
          /\ port' = r.port
    /\ UNCHANGED <<decl, argc, argv, _arguments, _i, bindings, slots, outcome>>
    /\ UNCHANGED <<wrapVars, arrayVars>>

\* $body of ruby_server_new: Server::new(host.unwrap().., port.unwrap()..), then
\* Class::from_existing("RubyServer").wrap_data(server, &*SERVER_WRAPPER)
BodyServerNew ==
    /\ pc = "body"
    /\ IsServerNew(decl)
    /\ IF new_panics(bindings)
       THEN /\ pc' = "panicking"
            /\ panicIn' = "body"
            /\ UNCHANGED <<ret, registry, inits, objects, boxes>>
       ELSE /\ wrap_data("RubyServer", new_server(bindings), "SERVER_WRAPPER")
            /\ pc' = "returning"
            /\ ret' = Wrapper("AnyObject", Nil)
            /\ UNCHANGED panicIn
    /\ UNCHANGED <<decl, argc, argv, _arguments, _i, bindings, slots, port, outcome, lastGet>>
    /\ UNCHANGED arrayVars

\* the thunk returns its value to the VM; its locals are gone
Return ==
    /\ pc = "returning"
    /\ pc' = "idle"
    /\ outcome' = "returned"
    /\ decl' = NoDecl
    /\ argc' = 0
    /\ argv' = <<>>
    /\ _arguments' = <<>>
    /\ _i' = 0
    /\ bindings' = <<>>
    /\ slots' = <<>>
    /\ UNCHANGED <<panicIn, ret, port>>
    /\ UNCHANGED <<wrapVars, arrayVars>>

\* a panic reaches the end of the extern fn
Escape ==
    /\ pc = "panicking"
    /\ pc' = "crossed"
    /\ outcome' \in ThunkEdge
    /\ UNCHANGED <<decl, argc, argv, _arguments, _i, bindings, slots, panicIn, ret, port>>
    /\ UNCHANGED <<wrapVars, arrayVars>>

\* what the last at() was asked and evaluated to, and how many items had been
\* pushed by then
NoAt == [done |-> FALSE, index |-> 0, object |-> Nil, pushes |-> 0]

NoPush == [done |-> FALSE, before |-> [value |-> 0], returned |-> [value |-> 0]]

\* no Array is built yet: `self` denotes no VM value
ArrayInit ==
    /\ vmArrays = <<>>
    /\ self = [value |-> 0]
    /\ pushed = <<>>
    /\ lastAt = NoAt
    /\ lastPush = NoPush

Init == ThunkInit /\ WrapInit /\ ArrayInit

NextThunk == Call \/ Bind \/ EnterBody \/ Body \/ BodyServerNew \/ Return \/ Escape

SpecThunk == Init /\ [][NextThunk]_vars

(***************************************************************************)
(* Properties of the thunks                                                *)
(***************************************************************************)
Running == pc \in {"prologue", "body", "returning", "panicking", "crossed"}

\* C1: in a thunk generated by methods!, the binding of the k-th declared
\* argument is an ArgumentError naming the argument, its type and the method
\* when the VM passed fewer than k arguments, a TypeMismatch when the k-th
\* argument is not of the declared class, and Ok(the typed wrapper of the
\* k-th argument) otherwise.
SafeBindingContract ==
    (Running /\ decl.gen = "safe") =>
        \A k \in 1 .. Len(bindings) :
            LET a == decl.args[k]
                b == bindings[k]
            IN  /\ k > argc =>
                      /\ ~b.ok
                      /\ b.err.kind = "ArgumentError"
                      /\ b.err.info[2] = a.arg_name
                      /\ b.err.info[4] = a.arg_type
                      /\ b.err.info[6] = decl.method_name
                /\ (k <= argc /\ argv[k].cls # ClassFor(a.arg_type)) =>
                      /\ ~b.ok
                      /\ b.err.kind = "TypeMismatch"
                /\ (k <= argc /\ argv[k].cls = ClassFor(a.arg_type)) =>
                      /\ b.ok
                      /\ b.val = [wrapper |-> a.arg_type, value |-> argv[k]]

\* a call of the safe ruby_server_new with one mistyped argument: the first
\* binding is a TypeMismatch, the second an ArgumentError
SafeBindingWitness ==
    /\ pc = "body"
    /\ decl.gen = "safe"
    /\ argc = 1
    /\ Len(bindings) = 2
    /\ bindings[1].err.kind = "TypeMismatch"
    /\ bindings[2].err.kind = "ArgumentError"

\* C2 as stated: the prologue of neither generator panics, whatever argc is.
ProloguesSurvive == panicIn # "prologue"

\* C2 amended: the prologue of a methods! thunk never panics; the prologue of
\* an unsafe_methods! thunk panics only when argc is below the number of
\* declared arguments, at the lookup of slot argc, and then the body is
\* never reached.
PrologueSurvival ==
    /\ panicIn = "prologue" =>
          /\ decl.gen = "unsafe"
          /\ argc < Len(decl.args)
          /\ _i = argc
    /\ (decl.gen = "safe" /\ Running) => panicIn # "prologue"
    /\ (decl.gen = "unsafe" /\ (pc \in {"body", "returning"} \/ panicIn = "body")) =>
          argc >= Len(decl.args)

\* a methods! thunk called with too few arguments has reached its body
PrologueSurvivalWitness ==
    /\ pc = "body"
    /\ decl.gen = "safe"
    /\ argc < Len(decl.args)

\* C3: a panic raised while a thunk runs is turned into a VM exception at the
\* thunk's edge; it never unwinds into the VM's frames (nor ends the process).
PanicsBecomeVmExceptions ==
    /\ (panicIn # "none" /\ pc = "crossed") => outcome = "vm_exception"
    /\ outcome # "unwind_into_vm"

\* C7: the safe start(address: Hash) returns nil without panicking, with port
\* = address[:port] when the argument is present, is a Hash and its :port is a
\* Fixnum, and port = 8080 in every other case.
StartPort ==
    (decl.gen = "safe" /\ decl.method_name = "start") =>
        /\ panicIn = "none"
        /\ pc \notin {"panicking", "crossed"}
        /\ pc = "returning" =>
              /\ ret.value.cls = "NilClass"
              /\ LET good == /\ argc >= 1
                              /\ argv[1].cls = "Hash"
                              /\ \E e \in argv[1].ent : e[1] = "port" /\ e[2].cls = "Fixnum"
                 IN  /\ good => \E e \in argv[1].ent : e[1] = "port" /\ port = e[2].n
                     /\ ~good => port = 8080

\* start({port: 3000}) has read 3000
StartPortWitness ==
    /\ pc = "returning"
    /\ decl.gen = "safe"
    /\ decl.method_name = "start"
    /\ argc >= 1
    /\ argv[1] = HashOf({<<"port", Fix(3000)>>})
    /\ port = 3000

\* C10: in both generators _i starts at 0 and grows by one per binding, the
\* k-th declared argument is bound from slot k whatever became of the earlier
\* bindings, _i is the number of declared arguments when the body starts, and
\* a binding is decided by its own slot alone.
ArgumentOrder ==
    /\ _i = Len(bindings)
    /\ Len(slots) = Len(bindings)
    /\ \A k \in 1 .. Len(slots) : slots[k] = k - 1
    /\ pc = "body" => _i = Len(decl.args)
    /\ \A k \in 1 .. Len(bindings) :
          LET a == decl.args[k]
          IN  bindings[k] =
                IF decl.gen = "unsafe" THEN [wrapper |-> a.arg_type, value |-> argv[k]]
                ELSE IF k <= argc THEN try_convert_to(a.arg_type, argv[k])
                ELSE Err(ArgumentError(a, decl.method_name))

\* a two-argument methods! thunk whose first binding failed, with its second
\* bound and a third, undeclared, argument passed
ArgumentOrderWitness ==
    /\ pc = "body"
    /\ decl.gen = "safe"
    /\ Len(decl.args) = 2
    /\ argc = 3
    /\ ~bindings[1].ok
    /\ bindings[2].ok
    /\ _i = 2

(***************************************************************************)
(* Wrapped structs: the documented RubyServer methods as whole calls, a    *)
(* second instantiation of the macro for a struct Client, and the VM's     *)
(* collector                                                               *)
(***************************************************************************)
ServerArgs == { Str("127.0.0.1"), Fix(3000), Fix(70000) }

\* the bindings the methods! prologue of ruby_server_new makes of argv
ServerNewBindings(v) ==
    [k \in 1 .. 2 |->
        SafeBinding(parse_arguments(Len(v), v), k - 1,
                    Arg(IF k = 1 THEN "host" ELSE "port", IF k = 1 THEN "RString" ELSE "Fixnum"),
                    "ruby_server_new")]

\* RubyServer.new(host, port), a call that returns
RubyServerNew ==
    /\ CanWrap
    /\ \E v \in SeqsUpTo(ServerArgs, 2) :
          LET b == ServerNewBindings(v)
          IN  /\ ~new_panics(b)
              /\ wrap_data("RubyServer", new_server(b), "SERVER_WRAPPER")
    /\ ret' = Wrapper("AnyObject", Nil)
    /\ UNCHANGED <<pc, decl, argc, argv, _arguments, _i, bindings, slots, panicIn, port, outcome>>
    /\ UNCHANGED <<lastGet, arrayVars>>

\* a Client wrapped under the static of the macro's second instantiation
ClientNew ==
    /\ CanWrap
    /\ wrap_data("RubyClient", [id |-> 7], "CLIENT_WRAPPER")
    /\ UNCHANGED <<thunkVars, lastGet, arrayVars>>

\* object.get_data(&*static), for any reachable object and any static
GetData ==
    /\ \E o \in ObjectIds, static \in Statics :
          /\ objects[o].state = "live"
          /\ Force(static)
          /\ lastGet' = get_data(o, static)
    /\ UNCHANGED <<thunkVars, objects, boxes, arrayVars>>

\* server.host: RString::new(itself.get_data(&*SERVER_WRAPPER).host())
RubyServerHost ==
    /\ \E o \in ObjectIds :
          /\ objects[o].state = "live"
          /\ objects[o].class = "RubyServer"
          /\ Force("SERVER_WRAPPER")
          /\ get_data(o, "SERVER_WRAPPER").ok
          /\ LET server == get_data(o, "SERVER_WRAPPER")
                 host   == Str(server.val.host)
             IN  /\ lastGet' = [server EXCEPT !.by = "ruby_server_host", !.read = host]
                 /\ ret' = Wrapper("RString", host)
    /\ UNCHANGED <<pc, decl, argc, argv, _arguments, _i, bindings, slots, panicIn, port, outcome>>
    /\ UNCHANGED <<objects, boxes, arrayVars>>

\* server.port: Fixnum::new(itself.get_data(&*SERVER_WRAPPER).port() as i64)
RubyServerPort ==
    /\ \E o \in ObjectIds :
          /\ objects[o].state = "live"
          /\ objects[o].class = "RubyServer"
          /\ Force("SERVER_WRAPPER")
          /\ get_data(o, "SERVER_WRAPPER").ok
          /\ LET server == get_data(o, "SERVER_WRAPPER")
                 p      == Fix(server.val.port)
             IN  /\ lastGet' = [server EXCEPT !.by = "ruby_server_port", !.read = p]
                 /\ ret' = Wrapper("Fixnum", p)
    /\ UNCHANGED <<pc, decl, argc, argv, _arguments, _i, bindings, slots, panicIn, port, outcome>>
    /\ UNCHANGED <<objects, boxes, arrayVars>>

\* the VM drops its last reference to the object
Unroot(o) ==
    /\ objects[o].state = "live"
    /\ objects' = [objects EXCEPT ![o].state = "unreachable"]
    /\ UNCHANGED <<thunkVars, registry, inits, boxes, lastGet, arrayVars>>

\* the descriptor an object points at
Descriptor(o) == registry[objects[o].dt.static].wrapper.data_type

\* the collector reclaims an unreachable object: it calls the descriptor's
\* dfree, if any, on the object's data; typed_data::free::<T> drops the box
Collect(o) ==
    /\ objects[o].state = "unreachable"
    /\ LET dfree == Descriptor(o).function.dfree
       IN  IF dfree.some
           THEN /\ boxes' = [boxes EXCEPT ![objects[o].data] = FreeBox]
                /\ objects' = [objects EXCEPT ![o].state = "collected",
                                              ![o].drops = @ + 1]
           ELSE /\ boxes' = boxes
                /\ objects' = [objects EXCEPT ![o].state = "collected"]
    /\ UNCHANGED <<thunkVars, registry, inits, lastGet, arrayVars>>

NextWrap ==
    \/ RubyServerNew
    \/ ClientNew
    \/ GetData
    \/ RubyServerHost
    \/ RubyServerPort
    \/ \E o \in ObjectIds : Unroot(o)
    \/ \E o \in ObjectIds : Collect(o)

SpecWrap == Init /\ [][NextWrap]_vars

\* the collector runs: an unreachable object is eventually reclaimed
FairSpecWrap == SpecWrap /\ \A o \in ObjectIds : WF_vars(Collect(o))

(***************************************************************************)
(* Properties of the wrapped structs                                       *)
(***************************************************************************)
Wrapped(o) == objects[o].state # "none"

DropsAreSafe ==
    \A o \in ObjectIds :
        /\ objects[o].drops <= 1
        /\ objects[o].state \in {"none", "live"} => objects[o].drops = 0
        /\ objects[o].state = "collected" => objects[o].drops = 1
        /\ (objects[o].state \in {"live", "unreachable"} /\ objects[o].drops = 0) =>
              boxes[objects[o].data].alloc

\* C4: the destructor of a wrapped struct runs exactly once: not while its VM
\* object is reachable, not twice, and, the collector running, eventually once
\* the object has become unreachable.
DestructorOnce ==
    /\ []DropsAreSafe
    /\ \A o \in ObjectIds :
          (objects[o].state = "unreachable") ~> (objects[o].drops = 1)

\* an object has been collected and its struct dropped, while another object
\* is still reachable with its struct in place
DestructorOnceWitness ==
    \E o, q \in ObjectIds :
        /\ objects[o].state = "collected"
        /\ objects[o].drops = 1
        /\ objects[q].state = "live"
        /\ objects[q].drops = 0

\* C5: get_data through the static an object was wrapped with yields the very
\* struct wrapped into that object, at any point before the object is
\* collected and however many objects are wrapped; host and port read back
\* are the wrapped struct's.
RoundTrip ==
    /\ \A o \in ObjectIds :
          objects[o].state \in {"live", "unreachable"} =>
              /\ get_data(o, objects[o].via).ok
              /\ get_data(o, objects[o].via).val = objects[o].made
              /\ get_data(o, objects[o].via).ptr = objects[o].data
              /\ \A q \in ObjectIds :
                    (q # o /\ objects[q].state \in {"live", "unreachable"}) =>
                        objects[q].data # objects[o].data
    /\ (lastGet.ok /\ lastGet.static = "SERVER_WRAPPER") =>
          /\ lastGet.val = objects[lastGet.obj].made
          /\ lastGet.ptr = objects[lastGet.obj].data
          /\ lastGet.by = "ruby_server_host" =>
                /\ lastGet.read.cls = "String"
                /\ lastGet.read.s = objects[lastGet.obj].made.host
          /\ lastGet.by = "ruby_server_port" =>
                /\ lastGet.read.cls = "Fixnum"
                /\ lastGet.read.n = objects[lastGet.obj].made.port

\* two servers with different ports are wrapped and reachable, and the port of
\* the second has been read back
RoundTripWitness ==
    /\ lastGet.ok
    /\ lastGet.obj = 2
    /\ lastGet.by = "ruby_server_port"
    /\ lastGet.read = Fix(3000)
    /\ objects[1].state = "live"
    /\ objects[1].via = "SERVER_WRAPPER"
    /\ objects[1].made.port # 3000

\* C6: get_data through the static of another struct type never yields the
\* struct: the VM's check of the descriptor fails.
NoCrossRetrieval ==
    /\ \A o \in ObjectIds, static \in Statics :
          (objects[o].state = "live" /\ static # objects[o].via) =>
              ~get_data(o, static).ok
    /\ (lastGet.obj # 0 /\ lastGet.static # objects[lastGet.obj].via) =>
          /\ ~lastGet.ok
          /\ lastGet.val = NoStruct

\* a wrapped Server has been asked for through CLIENT_WRAPPER
NoCrossRetrievalWitness ==
    /\ lastGet.obj # 0
    /\ lastGet.static = "CLIENT_WRAPPER"
    /\ objects[lastGet.obj].via = "SERVER_WRAPPER"
    /\ ~lastGet.ok

DescriptorOf(static) ==
    [wrap_struct_name |-> <<"Ruru/", IF static = "SERVER_WRAPPER" THEN "Server" ELSE "Client">>,
     parent   |-> "null",
     data     |-> "null",
     flags    |-> 0,
     function |-> [dmark    |-> [some |-> FALSE, fn |-> "", of |-> ""],
                   dfree    |-> [some |-> TRUE, fn |-> "typed_data::free",
                                 of |-> IF static = "SERVER_WRAPPER" THEN "Server" ELSE "Client"],
                   dsize    |-> [some |-> FALSE, fn |-> "", of |-> ""],
                   reserved |-> <<"null", "null">>]]

RegistryShape ==
    \A static \in Statics :
        /\ inits[static] <= 1
        /\ registry[static].init <=> inits[static] = 1
        /\ registry[static].init => registry[static].wrapper.data_type = DescriptorOf(static)
        /\ \A o \in ObjectIds :
              (Wrapped(o) /\ objects[o].via = static) =>
                  /\ registry[static].init
                  /\ objects[o].dt = [static |-> static]

\* C9: each static is initialised at most once, on first use; once initialised
\* its descriptor has the name "Ruru/<struct>", null parent and data, zero
\* flags, no dmark, the destructor of its struct as dfree, no dsize and two
\* null reserved slots, and no step changes it.
RegistryImmutable ==
    /\ []RegistryShape
    /\ [][\A static \in Statics :
            registry[static].init => registry'[static] = registry[static]]_vars

\* both statics are initialised, an object has been collected and a struct
\* has been read back
RegistryImmutableWitness ==
    /\ \A static \in Statics : registry[static].init
    /\ \E o \in ObjectIds : objects[o].state = "collected"
    /\ lastGet.ok

(***************************************************************************)
(* Array (src/src/class/array.rs) over the VM's array primitives           *)
(***************************************************************************)
Items == { Fix(3000), Str("nope") }

\* the array `self.value()` denotes
Elements(a) == vmArrays[a.value]

\* binding::array::entry: rb_ary_entry(array, offset); a negative offset
\* counts from the end, an offset outside the array yields nil
entry(elements, offset) ==
    LET at == IF offset < 0 THEN offset + Len(elements) ELSE offset
    IN  IF at < 0 \/ at >= Len(elements) THEN Nil ELSE elements[at + 1]

\* an at() that passes the element count from 1
at_from_one(a, index) == entry(Elements(a), index - 1)

\* Array::at(index): Object::from(array::entry(self.value(), index))
at(a, index) == entry(Elements(a), index)

\* Array::push(item) returns `self`
push_returns(a) == a

\* the indices at() is asked for
Indices == -(MaxLen + 1) .. (MaxLen + 1)

\* Array::new(): Array { value: array::new() }
ArrayNew ==
    /\ Len(vmArrays) < MaxArrays
    /\ vmArrays' = Append(vmArrays, <<>>)
    /\ self' = [value |-> Len(vmArrays) + 1]
    /\ pushed' = <<>>
    /\ lastAt' = NoAt
    /\ lastPush' = NoPush
    /\ UNCHANGED <<thunkVars, wrapVars>>

\* self.push(item): array::push(self.value(), item.value()); self
ArrayPush ==
    /\ self.value # 0
    /\ Len(Elements(self)) < MaxLen
    /\ \E item \in Items :
          /\ vmArrays' = [vmArrays EXCEPT ![self.value] = Append(@, item)]
          /\ pushed' = Append(pushed, item)
    /\ self' = push_returns(self)
    /\ lastPush' = [done |-> TRUE, before |-> self, returned |-> push_returns(self)]
    /\ UNCHANGED <<lastAt, thunkVars, wrapVars>>

\* self.at(index)
ArrayAt ==
    /\ self.value # 0
    /\ \E index \in Indices :
          lastAt' = [done |-> TRUE, index |-> index, object |-> at(self, index),
                     pushes |-> Len(pushed)]
    /\ UNCHANGED <<vmArrays, self, pushed, lastPush, thunkVars, wrapVars>>

NextArray == ArrayNew \/ ArrayPush \/ ArrayAt

SpecArray == Init /\ [][NextArray]_vars

\* C8: after Array::new() and n pushes, at(i) is the i-th pushed value for
\* 0 <= i < n, at(-k) is the (n-k)-th pushed value for 1 <= k <= n, and at(i)
\* is nil for i >= n and for i < -n; push returns the same Array, whose VM
\* value the push leaves as it was.
ArrayAtPush ==
    /\ lastAt.done =>
          LET n == lastAt.pushes
              i == lastAt.index
          IN  /\ (0 <= i /\ i < n) => lastAt.object = pushed[i + 1]
              /\ (-n <= i /\ i < 0) => lastAt.object = pushed[n + i + 1]
              /\ (i >= n \/ i < -n) => lastAt.object.cls = "NilClass"
    /\ lastPush.done =>
          /\ lastPush.returned = lastPush.before
          /\ self = lastPush.before

\* three values are pushed and at(-3) has read the first of them
ArrayAtPushWitness ==
    /\ Len(pushed) = 3
    /\ lastPush.done
    /\ lastAt.done
    /\ lastAt.index = -3
    /\ lastAt.object = pushed[1]
    /\ pushed[1] # pushed[3]

====
